---- MODULE Spec2Model ----
(***************************************************************************)
(* Model of src/server.py: the Open-Meteo tool adapter.  Three tools       *)
(* (get_current_weather, get_forecast, get_location) build a URL, await    *)
(* make_openmeteo_request on it and turn the outcome into a text.          *)
(* Strings are TLA+ strings; JSON values are tagged records.               *)
(***************************************************************************)
EXTENDS Integers, Sequences, FiniteSets, TLC

(***************************************************************************)
(* Bounds of the model.                                                    *)
(***************************************************************************)
\* number of tool invocations the host starts (they run as concurrent tasks)
NumCalls == 2

Calls == 1..NumCalls

(***************************************************************************)
(* Module constants, server.py lines 8-10.                                 *)
(***************************************************************************)
WEATHER_OPENMETEO_API_BASE == "https://api.open-meteo.com/v1"

GEOCODING_OPENMATEO_API_BASE == "https://geocoding-api.open-meteo.com/v1"

USER_AGENT == "weather-app/1.0"

(***************************************************************************)
(* Python values.  A JSON value / Python object is a record tagged by t:   *)
(*   null (Python None), bool, int, float, str, list, dict.                *)
(* A float is kept as sign, integer part and fraction digits, which is     *)
(* what repr() prints for the short decimals used here.  A dict is the     *)
(* sequence of its <<key, value>> pairs in insertion order.                *)
(***************************************************************************)
None == [t |-> "null"]

PyBool(b) == [t |-> "bool", b |-> b]

PyInt(n) == [t |-> "int", n |-> n]

PyFloat(neg, i, f) == [t |-> "float", neg |-> neg, i |-> i, f |-> f]

PyStr(s) == [t |-> "str", s |-> s]

PyList(items) == [t |-> "list", items |-> items]

PyDict(items) == [t |-> "dict", items |-> items]

\* Python truthiness, as `not data` evaluates it
Truthy(v) ==
    CASE v.t = "null"  -> FALSE
      [] v.t = "bool"  -> v.b
      [] v.t = "int"   -> v.n # 0
      [] v.t = "float" -> ~(v.i = 0 /\ v.f = "0")
      [] v.t = "str"   -> v.s # ""
      [] v.t = "list"  -> Len(v.items) > 0
      [] v.t = "dict"  -> Len(v.items) > 0

(***************************************************************************)
(* Formatting: what an f-string replacement field produces.                *)
(***************************************************************************)
\* str(int)
IntStr(n) == ToString(n)

\* repr(float): shortest decimal, always with a fraction part
FloatStr(x) == (IF x.neg THEN "-" ELSE "") \o ToString(x.i) \o "." \o x.f

\* format(value) of an f-string field
Format(v) ==
    CASE v.t = "int"   -> IntStr(v.n)
      [] v.t = "float" -> FloatStr(v)
      [] v.t = "str"   -> v.s

(***************************************************************************)
(* json.dumps with the default separators (", " and ": ").                 *)
(***************************************************************************)
RECURSIVE Dumps(_)
RECURSIVE DumpsList(_, _)
RECURSIVE DumpsDict(_, _)

DumpsList(items, k) ==
    IF k > Len(items) THEN ""
    ELSE (IF k > 1 THEN ", " ELSE "") \o Dumps(items[k]) \o DumpsList(items, k + 1)

DumpsDict(items, k) ==
    IF k > Len(items) THEN ""
    ELSE (IF k > 1 THEN ", " ELSE "")
         \o "\"" \o items[k][1] \o "\": " \o Dumps(items[k][2])
         \o DumpsDict(items, k + 1)

Dumps(v) ==
    CASE v.t = "null"  -> "null"
      [] v.t = "bool"  -> IF v.b THEN "true" ELSE "false"
      [] v.t = "int"   -> IntStr(v.n)
      [] v.t = "float" -> FloatStr(v)
      [] v.t = "str"   -> "\"" \o v.s \o "\""
      [] v.t = "list"  -> "[" \o DumpsList(v.items, 1) \o "]"
      [] v.t = "dict"  -> "{" \o DumpsDict(v.items, 1) \o "}"

(***************************************************************************)
(* json.loads (response.json()): a recursive-descent parser.  Each Parse   *)
(* operator returns [ok, v, p]: whether a value was read at position p of  *)
(* s, the value, and the position after it.  The grammar covers null,      *)
(* true, false, decimal numbers, strings without escapes, arrays and       *)
(* objects, with blanks between tokens.                                    *)
(***************************************************************************)
Digits == {"0", "1", "2", "3", "4", "5", "6", "7", "8", "9"}

DigitVal(c) ==
    CASE c = "0" -> 0 [] c = "1" -> 1 [] c = "2" -> 2 [] c = "3" -> 3
      [] c = "4" -> 4 [] c = "5" -> 5 [] c = "6" -> 6 [] c = "7" -> 7
      [] c = "8" -> 8 [] c = "9" -> 9

At(s, p) == IF p >= 1 /\ p <= Len(s) THEN SubSeq(s, p, p) ELSE ""

StartsAt(s, p, lit) ==
    p + Len(lit) - 1 <= Len(s) /\ SubSeq(s, p, p + Len(lit) - 1) = lit

Fail == [ok |-> FALSE, v |-> None, p |-> 0]

Ok(v, p) == [ok |-> TRUE, v |-> v, p |-> p]

RECURSIVE SkipWs(_, _)
SkipWs(s, p) == IF At(s, p) = " " THEN SkipWs(s, p + 1) ELSE p

RECURSIVE DigitsEnd(_, _)
\* the position after the run of digits that starts at p
DigitsEnd(s, p) == IF At(s, p) \in Digits THEN DigitsEnd(s, p + 1) ELSE p

RECURSIVE DigitsInt(_, _, _)
\* the integer written by the digits s[p..q-1]
DigitsInt(s, p, q) ==
    IF p >= q THEN 0
    ELSE DigitsInt(s, p, q - 1) * 10 + DigitVal(At(s, q - 1))

RECURSIVE StripZeros(_)
\* the fraction digits of the shortest repr: no trailing zero, at least one digit
StripZeros(f) ==
    IF Len(f) > 1 /\ SubSeq(f, Len(f), Len(f)) = "0"
    THEN StripZeros(SubSeq(f, 1, Len(f) - 1))
    ELSE f

ParseNumber(s, p) ==
    LET neg == At(s, p) = "-"
        p1  == IF neg THEN p + 1 ELSE p
        p2  == DigitsEnd(s, p1)
    IN  IF p2 = p1 THEN Fail
        ELSE IF At(s, p2) = "."
        THEN LET p3 == DigitsEnd(s, p2 + 1)
             IN  IF p3 = p2 + 1 THEN Fail
                 ELSE Ok(PyFloat(neg, DigitsInt(s, p1, p2),
                                 StripZeros(SubSeq(s, p2 + 1, p3 - 1))), p3)
        ELSE Ok(PyInt(IF neg THEN 0 - DigitsInt(s, p1, p2)
                             ELSE DigitsInt(s, p1, p2)), p2)

RECURSIVE StringEnd(_, _)
\* the position of the closing quote of the string whose body starts at p; 0 if none
StringEnd(s, p) ==
    IF p > Len(s) \/ At(s, p) = "\\" THEN 0
    ELSE IF At(s, p) = "\"" THEN p
    ELSE StringEnd(s, p + 1)

ParseString(s, p) ==
    IF At(s, p) # "\"" THEN Fail
    ELSE LET q == StringEnd(s, p + 1)
         IN  IF q = 0 THEN Fail ELSE Ok(PyStr(SubSeq(s, p + 1, q - 1)), q + 1)

RECURSIVE DictSet(_, _, _, _)
\* d[key] = val on the pairs of a dict: an existing key keeps its place
DictSet(items, key, val, k) ==
    IF k > Len(items) THEN Append(items, <<key, val>>)
    ELSE IF items[k][1] = key THEN [items EXCEPT ![k] = <<key, val>>]
    ELSE DictSet(items, key, val, k + 1)

RECURSIVE ParseValue(_, _)
RECURSIVE ParseElements(_, _, _)
RECURSIVE ParseMembers(_, _, _)

\* the elements of an array after "[" or ",": p is at a value
ParseElements(s, p, acc) ==
    LET r == ParseValue(s, SkipWs(s, p))
    IN  IF ~r.ok THEN Fail
        ELSE LET q == SkipWs(s, r.p)
             IN  IF At(s, q) = "," THEN ParseElements(s, q + 1, Append(acc, r.v))
                 ELSE IF At(s, q) = "]" THEN Ok(PyList(Append(acc, r.v)), q + 1)
                 ELSE Fail

\* the members of an object after "{" or ",": p is at a key
ParseMembers(s, p, acc) ==
    LET k == ParseString(s, SkipWs(s, p))
    IN  IF ~k.ok THEN Fail
        ELSE LET c == SkipWs(s, k.p)
             IN  IF At(s, c) # ":" THEN Fail
                 ELSE LET r == ParseValue(s, SkipWs(s, c + 1))
                      IN  IF ~r.ok THEN Fail
                          ELSE LET q   == SkipWs(s, r.p)
                                   nxt == DictSet(acc, k.v.s, r.v, 1)
                               IN  IF At(s, q) = "," THEN ParseMembers(s, q + 1, nxt)
                                   ELSE IF At(s, q) = "}" THEN Ok(PyDict(nxt), q + 1)
                                   ELSE Fail

ParseValue(s, p) ==
    LET c == At(s, p)
    IN  CASE StartsAt(s, p, "null")  -> Ok(None, p + 4)
          [] StartsAt(s, p, "true")  -> Ok(PyBool(TRUE), p + 4)
          [] StartsAt(s, p, "false") -> Ok(PyBool(FALSE), p + 5)
          [] c = "\"" -> ParseString(s, p)
          [] c = "[" ->
                IF At(s, SkipWs(s, p + 1)) = "]"
                THEN Ok(PyList(<<>>), SkipWs(s, p + 1) + 1)
                ELSE ParseElements(s, p + 1, <<>>)
          [] c = "{" ->
                IF At(s, SkipWs(s, p + 1)) = "}"
                THEN Ok(PyDict(<<>>), SkipWs(s, p + 1) + 1)
                ELSE ParseMembers(s, p + 1, <<>>)
          [] c = "-" \/ c \in Digits -> ParseNumber(s, p)
          [] OTHER -> Fail

\* json.loads(text): [ok |-> FALSE] stands for the JSONDecodeError it raises
Loads(text) ==
    LET r == ParseValue(text, SkipWs(text, 1))
    IN  IF r.ok /\ SkipWs(text, r.p) = Len(text) + 1 THEN r ELSE Fail

(***************************************************************************)
(* Inputs: what the host passes to the tools and what the upstream does.   *)
(***************************************************************************)
\* marks a parameter the caller left out, so that its default applies
Omitted == [t |-> "omitted"]

Default(v, d) == IF v = Omitted THEN d ELSE v

Berlin == [latitude |-> PyFloat(FALSE, 52, "52"), longitude |-> PyFloat(FALSE, 13, "405")]

NullIsland == [latitude |-> PyFloat(FALSE, 0, "0"), longitude |-> PyFloat(FALSE, 0, "0")]

Sydney == [latitude |-> PyFloat(TRUE, 33, "87"), longitude |-> PyFloat(FALSE, 151, "21")]

\* arguments of get_current_weather(latitude, longitude)
WeatherArgs == {Berlin, Sydney, NullIsland}

\* arguments of get_forecast(latitude, longitude, days = 7)
ForecastArgs ==
    { [latitude |-> NullIsland.latitude, longitude |-> NullIsland.longitude, days |-> Omitted],
      [latitude |-> Berlin.latitude, longitude |-> Berlin.longitude, days |-> PyInt(3)],
      [latitude |-> Sydney.latitude, longitude |-> Sydney.longitude, days |-> PyInt(16)],
      [latitude |-> Berlin.latitude, longitude |-> Berlin.longitude, days |-> PyInt(-1)] }

\* arguments of get_location(search_term, count = 10)
LocationArgs ==
    { [search_term |-> PyStr("Nowhere12345xyz"), count |-> PyInt(5)],
      [search_term |-> PyStr("New York"), count |-> Omitted],
      [search_term |-> PyStr("Berlin"), count |-> PyInt(1)],
      [search_term |-> PyStr(""), count |-> PyInt(10)] }

\* What awaiting client.get ends in: an exception raised by the transport
\* (exc # ""), or a response with a status and a body text.
Raised(exc) == [exc |-> exc, status |-> 0, text |-> ""]

Response(status, text) == [exc |-> "", status |-> status, text |-> text]

TransportErrors == {Raised("ConnectError"), Raised("ReadTimeout"), Raised("ConnectTimeout")}

HttpErrors ==
    { Response(500, "Internal Server Error"),
      Response(404, "{\"error\": true, \"reason\": \"Not Found\"}"),
      Response(400, "{\"error\": true, \"reason\": \"Latitude must be in range\"}") }

MalformedBodies == {Response(200, "<html>"), Response(200, "{\"current\": "), Response(200, "")}

WellFormedBodies ==
    { Response(200, "{\"current\": {\"temperature_2m\": 18.3}}"),
      Response(200, "{\"results\":[{\"name\":\"Berlin\",\"id\":2950159,\"latitude\":52.52437}]}"),
      Response(200, "{\"daily\": {\"sunrise\": [\"2024-05-01T05:37\"], \"rain_sum\": [0.0, 1.20]}}"),
      Response(200, "[1, -2.5, true, null, \"x\"]"),
      Response(200, "{}"),
      Response(200, "[]"),
      Response(200, "null"),
      Response(200, "false"),
      Response(200, "0"),
      Response(200, "\"\"") }

Outcomes == TransportErrors \cup HttpErrors \cup MalformedBodies \cup WellFormedBodies

\* The inputs of the concurrent specification: one argument list per tool
\* and one outcome of each kind.
SomeWeatherArgs == {Berlin}

SomeForecastArgs == {a \in ForecastArgs : a.days = Omitted}

SomeLocationArgs == {a \in LocationArgs : a.search_term = PyStr("Nowhere12345xyz")}

SomeOutcomes ==
    { Raised("ConnectError"), Raised("ReadTimeout"),
      Response(500, "Internal Server Error"),
      Response(404, "{\"error\": true, \"reason\": \"Not Found\"}"),
      Response(200, "{\"current\": {\"temperature_2m\": 18.3}}"),
      Response(200, "{}") }

(***************************************************************************)
(* The state.                                                              *)
(***************************************************************************)
VARIABLES
    pc,       \* pc[i]: where invocation i is: "idle", "get" (suspended in
              \* client.get), "exit" (suspended leaving the async with), "done"
    frame,    \* frame[i]: the locals of invocation i's tool coroutine
    outcome,  \* outcome[i]: what client.get ended in for invocation i
    ret,      \* ret[i]: the value make_openmeteo_request is returning
    result,   \* result[i]: the value the tool returned to the host
    error,    \* error[i]: the exception that left invocation i ("" for none)
    clients,  \* clients[c]: the httpx.AsyncClient object c
    log       \* the records the module's logger has emitted

vars == <<pc, frame, outcome, ret, result, error, clients, log>>

NoFrame == [tool |-> "", args |-> <<>>, params |-> <<>>, url |-> "", client |-> 0]

NoOutcome == Raised("")

NoClient == [state |-> "unborn", requests |-> <<>>]

Init ==
    /\ pc = [i \in Calls |-> "idle"]
    /\ frame = [i \in Calls |-> NoFrame]
    /\ outcome = [i \in Calls |-> NoOutcome]
    /\ ret = [i \in Calls |-> None]
    /\ result = [i \in Calls |-> None]
    /\ error = [i \in Calls |-> ""]
    /\ clients = [c \in Calls |-> NoClient]
    /\ log = <<>>

(***************************************************************************)
(* The query URLs: the f-strings of lines 41, 60 and 78.                   *)
(***************************************************************************)
\* mutant: a field list that names rain twice and the weather code never
CurrentWeatherUrlRainTwice(latitude, longitude) ==
    WEATHER_OPENMETEO_API_BASE \o "/forecast?latitude=" \o Format(latitude)
    \o "&longitude=" \o Format(longitude)
    \o "&current=temperature_2m,is_day,showers,cloud_cover,wind_speed_10m,wind_direction_10m,pressure_msl,snowfall,precipitation,relative_humidity_2m,apparent_temperature,rain,rain,surface_pressure,wind_gusts_10m"

CurrentWeatherUrl(latitude, longitude) ==
    WEATHER_OPENMETEO_API_BASE \o "/forecast?latitude=" \o Format(latitude)
    \o "&longitude=" \o Format(longitude)
    \o "&current=temperature_2m,is_day,showers,cloud_cover,wind_speed_10m,wind_direction_10m,pressure_msl,snowfall,precipitation,relative_humidity_2m,apparent_temperature,rain,weather_code,surface_pressure,wind_gusts_10m"

ForecastUrl(latitude, longitude, days) ==
    WEATHER_OPENMETEO_API_BASE \o "/forecast?latitude=" \o Format(latitude)
    \o "&longitude=" \o Format(longitude)
    \o "&forecast_days=" \o Format(days)
    \o "&daily=temperature_2m_max,temperature_2m_min,precipitation_sum,rain_sum,snowfall_sum,wind_speed_10m_max,wind_gusts_10m_max,wind_direction_10m_dominant,weathercode,sunrise,sunset&timezone=auto"

LocationUrl(search_term, count) ==
    GEOCODING_OPENMATEO_API_BASE \o "/search?name=" \o Format(search_term)
    \o "&count=" \o Format(count)

\* mutant: another default
DefaultDaysTen == PyInt(10)

\* the defaults of the tools' signatures
DefaultDays == PyInt(7)

DefaultCount == PyInt(10)

(***************************************************************************)
(* The failure sentences of lines 46, 65 and 83.                           *)
(***************************************************************************)
CurrentWeatherFailure == "Unable to fetch current weather data for this location."

ForecastFailure == "Unable to fetch forecasted weather data for this location."

\* mutant: the sentence does not name the search term
LocationFailureGeneric(search_term) == "Unable to fetch location data for this location."

LocationFailure(search_term) == "Unable to fetch location data for " \o Format(search_term)

(***************************************************************************)
(* make_openmeteo_request, lines 17-30.                                    *)
(***************************************************************************)
Headers == [UserAgent |-> USER_AGENT, Accept |-> "application/json"]

\* the timeout passed to client.get, in seconds
Timeout == 30

\* mutant: one module-level client serves every call
SharedClient(i) == 1

\* the client object that the call of invocation i constructs in `async with`
NewClient(i) == i

\* mutant: the status is never looked at
NoRaiseForStatus(status) == ""

\* response.raise_for_status(): the exception it raises, "" when it returns
RaiseForStatus(status) ==
    IF status >= 200 /\ status <= 299 THEN "" ELSE "HTTPStatusError"

\* the try block, lines 25-27: [exc, value], exc the exception raised in it
\* ("" when it ran to its return), value the value it returns
TryBlock(o) ==
    IF o.exc # "" THEN [exc |-> o.exc, value |-> None]
    ELSE IF RaiseForStatus(o.status) # ""
    THEN [exc |-> RaiseForStatus(o.status), value |-> None]
    ELSE LET r == Loads(o.text)
         IN  IF r.ok THEN [exc |-> "", value |-> r.v]
             ELSE [exc |-> "JSONDecodeError", value |-> None]

\* mutant: `except httpx.HTTPError`, which a JSON decoding error is not
CatchesHttpErrorOnly(exc) == exc \in {"ConnectError", "ReadTimeout", "ConnectTimeout", "HTTPStatusError"}

\* `except Exception`, line 28: does the handler catch this exception class
Catches(exc) == exc # ""

\* logger.error(...), line 29: the record emitted by task i for exception exc
ErrorRecord(i, exc) ==
    [level |-> "ERROR", msg |-> "Open-Meteo request failed: " \o exc, task |-> i]

\* lines 19-25 up to the suspension in client.get: the client is constructed
\* and entered, and the GET for url is handed to it
Enter(i, url) ==
    LET c == NewClient(i)
    IN  clients' = [clients EXCEPT ![c] =
            [state |-> "open",
             requests |-> Append(@.requests,
                 [method |-> "GET", url |-> url, headers |-> Headers,
                  timeout |-> Timeout])]]

\* mutant: a failed GET is issued once more before the failure is accepted
make_openmeteo_request_retrying(i, o) ==
    /\ pc[i] = "get"
    /\ LET t == TryBlock(o)
           c == frame[i].client
       IN  IF t.exc # "" /\ Len(clients[c].requests) < 2
           THEN /\ clients' = [clients EXCEPT ![c].requests =
                        Append(@, [method |-> "GET", url |-> frame[i].url,
                                   headers |-> Headers, timeout |-> Timeout])]
                /\ UNCHANGED <<pc, outcome, ret, log, error>>
           ELSE /\ outcome' = [outcome EXCEPT ![i] = o]
                /\ IF t.exc = ""
                   THEN ret' = [ret EXCEPT ![i] = t.value] /\ UNCHANGED log
                   ELSE ret' = [ret EXCEPT ![i] = None]
                        /\ log' = Append(log, ErrorRecord(i, t.exc))
                /\ pc' = [pc EXCEPT ![i] = "exit"]
                /\ UNCHANGED <<clients, error>>
    /\ UNCHANGED <<frame, result>>

\* client.get has ended in outcome o: lines 26-30 run up to the suspension in
\* the exit of the `async with` block
make_openmeteo_request(i, o) ==
    /\ pc[i] = "get"
    /\ LET t == TryBlock(o)
       IN  /\ outcome' = [outcome EXCEPT ![i] = o]
           /\ IF t.exc = ""
              THEN /\ ret' = [ret EXCEPT ![i] = t.value]
                   /\ UNCHANGED <<log, error>>
              ELSE IF Catches(t.exc)
              THEN /\ log' = Append(log, ErrorRecord(i, t.exc))
                   /\ ret' = [ret EXCEPT ![i] = None]
                   /\ UNCHANGED error
              ELSE /\ error' = [error EXCEPT ![i] = t.exc]
                   /\ UNCHANGED <<log, ret>>
    /\ pc' = [pc EXCEPT ![i] = "exit"]
    /\ UNCHANGED <<frame, result, clients>>

\* mutant: the client is closed after the successful return only
ExitOnSuccessOnly(i) ==
    clients' = [clients EXCEPT ![frame[i].client].state =
                   IF TryBlock(outcome[i]).exc = "" THEN "closed" ELSE @]

\* the exit of the `async with` block: the client is closed on every path
Exit(i) ==
    clients' = [clients EXCEPT ![frame[i].client].state = "closed"]

(***************************************************************************)
(* The tools.  Each has a call step (up to the suspension in the fetch)    *)
(* and a return step (from the end of the fetch to the tool's return).     *)
(***************************************************************************)
\* args: what the host passed; params: the parameters after the defaults
Call(i, tool, args, params, url) ==
    /\ pc[i] = "idle"
    /\ frame' = [frame EXCEPT ![i] =
           [tool |-> tool, args |-> args, params |-> params, url |-> url,
            client |-> NewClient(i)]]
    /\ Enter(i, url)
    /\ pc' = [pc EXCEPT ![i] = "get"]
    /\ UNCHANGED <<outcome, ret, result, error, log>>

\* lines 43-48, 62-67, 80-85: data = the fetch's value; the failure sentence
\* if `not data`, else json.dumps(data)
Return(i, tool, failure) ==
    /\ pc[i] = "exit"
    /\ frame[i].tool = tool
    /\ Exit(i)
    /\ IF error[i] # ""
       THEN UNCHANGED result
       ELSE LET data == ret[i]
            IN  result' = [result EXCEPT ![i] =
                    IF ~Truthy(data) THEN PyStr(failure) ELSE PyStr(Dumps(data))]
    /\ pc' = [pc EXCEPT ![i] = "done"]
    /\ UNCHANGED <<frame, outcome, ret, error, log>>

get_current_weather(i, a) ==
    Call(i, "get_current_weather", a, a, CurrentWeatherUrl(a.latitude, a.longitude))

get_current_weather_return(i) ==
    Return(i, "get_current_weather", CurrentWeatherFailure)

get_forecast(i, a) ==
    LET p == [a EXCEPT !.days = Default(a.days, DefaultDays)]
    IN  Call(i, "get_forecast", a, p, ForecastUrl(p.latitude, p.longitude, p.days))

get_forecast_return(i) ==
    Return(i, "get_forecast", ForecastFailure)

get_location(i, a) ==
    LET p == [a EXCEPT !.count = Default(a.count, DefaultCount)]
    IN  Call(i, "get_location", a, p, LocationUrl(p.search_term, p.count))

get_location_return(i) ==
    Return(i, "get_location", LocationFailure(frame[i].params.search_term))

(***************************************************************************)
(* Spec: the host runs NumCalls invocations as concurrent tasks, which     *)
(* interleave at their suspension points.                                  *)
(***************************************************************************)
Next ==
    \E i \in Calls :
        \/ \E a \in SomeWeatherArgs : get_current_weather(i, a)
        \/ \E a \in SomeForecastArgs : get_forecast(i, a)
        \/ \E a \in SomeLocationArgs : get_location(i, a)
        \/ \E o \in SomeOutcomes : make_openmeteo_request(i, o)
        \/ get_current_weather_return(i)
        \/ get_forecast_return(i)
        \/ get_location_return(i)

Spec == Init /\ [][Next]_vars

(***************************************************************************)
(* SpecOne: one invocation, over every argument list and every outcome.    *)
(***************************************************************************)
NextOne ==
    \/ \E a \in WeatherArgs : get_current_weather(1, a)
    \/ \E a \in ForecastArgs : get_forecast(1, a)
    \/ \E a \in LocationArgs : get_location(1, a)
    \/ \E o \in Outcomes : make_openmeteo_request(1, o)
    \/ get_current_weather_return(1)
    \/ get_forecast_return(1)
    \/ get_location_return(1)

SpecOne == Init /\ [][NextOne]_vars

(***************************************************************************)
(* Reading the state.                                                      *)
(***************************************************************************)
Started(i) == pc[i] # "idle"

Done(i) == pc[i] = "done"

\* the requests invocation i's client has been handed
RequestsOf(i) == clients[frame[i].client].requests

\* the log records task i has emitted
LogsOf(i) == Cardinality({k \in 1..Len(log) : log[k].task = i})

\* the kinds of upstream outcome
IsTransportFailure(o) == o.exc # ""

IsHttpError(o) == o.exc = "" /\ o.status >= 400 /\ o.status <= 599

IsMalformed(o) == o \in MalformedBodies

IsWellFormed(o) == o \in WellFormedBodies

IsFailure(o) == IsTransportFailure(o) \/ IsHttpError(o) \/ IsMalformed(o)

\* the failure sentence the specification gives each tool
ExpectedFailure(tool, search_term) ==
    CASE tool = "get_current_weather" ->
            "Unable to fetch current weather data for this location."
      [] tool = "get_forecast" ->
            "Unable to fetch forecasted weather data for this location."
      [] tool = "get_location" ->
            "Unable to fetch location data for " \o search_term

ExpectedFailureOf(i) ==
    ExpectedFailure(frame[i].tool,
        IF frame[i].tool = "get_location" THEN frame[i].args.search_term.s ELSE "")

(***************************************************************************)
(* C1: no exception escapes an invocation.  For every tool, argument list  *)
(* and upstream outcome, no exception is in flight once the fetch is over, *)
(* the finished invocation has returned a text, and after a transport      *)
(* error, a timeout, an HTTP error status or a malformed body that text is *)
(* the tool's failure sentence.                                            *)
(***************************************************************************)
C1_NoExceptionEscapes ==
    \A i \in Calls :
        /\ error[i] = ""
        /\ Done(i) => /\ result[i].t = "str"
                      /\ IsFailure(outcome[i]) => result[i].s = ExpectedFailureOf(i)

C1_Witness ==
    \E i \in Calls :
        /\ Done(i)
        /\ frame[i].tool = "get_forecast"
        /\ outcome[i] = Response(200, "{\"current\": ")
        /\ result[i] = PyStr("Unable to fetch forecasted weather data for this location.")

(***************************************************************************)
(* C2: round trip.  For every well-formed JSON body sent with a success    *)
(* status, empty or falsy values included, the text the tool returns       *)
(* parses to a value structurally equal to the parse of the body.          *)
(***************************************************************************)
C2_RoundTrip ==
    \A i \in Calls :
        (Done(i) /\ IsWellFormed(outcome[i])) =>
            /\ result[i].t = "str"
            /\ Loads(result[i].s).ok
            /\ Loads(result[i].s).v = Loads(outcome[i].text).v

(***************************************************************************)
(* C3: an HTTP error status and a transport failure are indistinguishable. *)
(* Two finished invocations of the same tool with the same parameters,     *)
(* each ended by an HTTP error status or a transport failure, got the same *)
(* fetch result, absence, and returned the same text.                      *)
(***************************************************************************)
C3_StatusNotObservable ==
    \A i, j \in Calls :
        ( /\ Done(i) /\ Done(j)
          /\ frame[i].tool = frame[j].tool
          /\ frame[i].params = frame[j].params
          /\ IsHttpError(outcome[i]) \/ IsTransportFailure(outcome[i])
          /\ IsHttpError(outcome[j]) \/ IsTransportFailure(outcome[j]) ) =>
            /\ ret[i] = None
            /\ ret[j] = None
            /\ result[i] = result[j]

C3_Witness ==
    \E i, j \in Calls :
        /\ Done(i) /\ Done(j)
        /\ frame[i].tool = frame[j].tool
        /\ frame[i].params = frame[j].params
        /\ outcome[i].status = 404
        /\ outcome[j] = Raised("ReadTimeout")
        /\ result[i] = result[j]

(***************************************************************************)
(* C4: the failure sentences.  When the fetch returned absence the tool    *)
(* returns its own sentence: the current-weather sentence, the forecast    *)
(* sentence, or the location sentence ending in the caller's search term   *)
(* unchanged; and that text is the sentence of no other tool.              *)
(***************************************************************************)
C4_FailureSentences ==
    \A i \in Calls :
        (Done(i) /\ ret[i] = None /\ error[i] = "") =>
            /\ result[i] = PyStr(ExpectedFailureOf(i))
            /\ \A tool \in {"get_current_weather", "get_forecast", "get_location"} :
                 \A a \in LocationArgs :
                    tool # frame[i].tool =>
                        result[i].s # ExpectedFailure(tool, a.search_term.s)

C4_Witness ==
    \E i \in Calls :
        /\ Done(i)
        /\ frame[i].tool = "get_location"
        /\ frame[i].args = [search_term |-> PyStr("Nowhere12345xyz"), count |-> PyInt(5)]
        /\ IsTransportFailure(outcome[i])
        /\ result[i] = PyStr("Unable to fetch location data for Nowhere12345xyz")

(***************************************************************************)
(* Reading a URL: its part before "?", and the values its query gives a    *)
(* name.                                                                   *)
(***************************************************************************)
\* the first position from p on where s holds the character c; Len(s) + 1 if none
IndexOf(s, c, p) ==
    LET hits == {k \in p..Len(s) : SubSeq(s, k, k) = c}
    IN  IF hits = {} THEN Len(s) + 1
        ELSE CHOOSE k \in hits : \A m \in hits : k <= m

RECURSIVE Split(_, _)
Split(s, c) ==
    LET k == IndexOf(s, c, 1)
    IN  IF k > Len(s) THEN <<s>>
        ELSE <<SubSeq(s, 1, k - 1)>> \o Split(SubSeq(s, k + 1, Len(s)), c)

UrlPath(url) == SubSeq(url, 1, IndexOf(url, "?", 1) - 1)

UrlQuery(url) == SubSeq(url, IndexOf(url, "?", 1) + 1, Len(url))

PairName(pair) == SubSeq(pair, 1, IndexOf(pair, "=", 1) - 1)

PairValue(pair) == SubSeq(pair, IndexOf(pair, "=", 1) + 1, Len(pair))

QueryValues(url, name) ==
    LET Named(pair) == PairName(pair) = name
        pairs == SelectSeq(Split(UrlQuery(url), "&"), Named)
    IN  [k \in 1..Len(pairs) |-> PairValue(pairs[k])]

QueryNames(url) ==
    LET pairs == Split(UrlQuery(url), "&")
    IN  [k \in 1..Len(pairs) |-> PairName(pairs[k])]

NoDuplicates(seq) == \A k, l \in 1..Len(seq) : seq[k] = seq[l] => k = l

\* the URL of the GET that invocation i issued
RequestedUrl(i) == RequestsOf(i)[1].url

\* the days the caller asked for, written in decimal; 7 when left out
ExpectedDays(i) ==
    IF frame[i].args.days = Omitted THEN "7" ELSE ToString(frame[i].args.days.n)

DailyFields ==
    << "temperature_2m_max", "temperature_2m_min", "precipitation_sum", "rain_sum",
       "snowfall_sum", "wind_speed_10m_max", "wind_gusts_10m_max",
       "wind_direction_10m_dominant", "weathercode", "sunrise", "sunset" >>

CurrentFields ==
    << "temperature_2m", "is_day", "showers", "cloud_cover", "wind_speed_10m",
       "wind_direction_10m", "pressure_msl", "snowfall", "precipitation",
       "relative_humidity_2m", "apparent_temperature", "rain", "weather_code",
       "surface_pressure", "wind_gusts_10m" >>

ForecastUrlShape(i) ==
    /\ Len(RequestsOf(i)) >= 1
    /\ UrlPath(RequestedUrl(i)) = "https://api.open-meteo.com/v1/forecast"
    /\ QueryValues(RequestedUrl(i), "forecast_days") = <<ExpectedDays(i)>>
    /\ QueryValues(RequestedUrl(i), "timezone") = <<"auto">>
    /\ Len(QueryValues(RequestedUrl(i), "daily")) = 1

(***************************************************************************)
(* C5 as stated: the URL get_forecast requests is on the forecast base     *)
(* path, has forecast_days=<days> (7 when days is left out) and            *)
(* timezone=auto, and its daily parameter is a list of 10 fields.          *)
(***************************************************************************)
C5_TenDailyFields ==
    \A i \in Calls :
        (Started(i) /\ frame[i].tool = "get_forecast") =>
            /\ ForecastUrlShape(i)
            /\ Len(Split(QueryValues(RequestedUrl(i), "daily")[1], ",")) = 10

(***************************************************************************)
(* C5 amended: as above, with the daily parameter holding the fixed list   *)
(* of 11 fields: max and min temperature, precipitation, rain and snowfall *)
(* sums, max wind speed and gusts, dominant wind direction, weather code,  *)
(* sunrise and sunset.                                                     *)
(***************************************************************************)
C5_ElevenDailyFields ==
    \A i \in Calls :
        (Started(i) /\ frame[i].tool = "get_forecast") =>
            /\ ForecastUrlShape(i)
            /\ Split(QueryValues(RequestedUrl(i), "daily")[1], ",") = DailyFields
            /\ Len(DailyFields) = 11

C5_Witness ==
    \E i \in Calls :
        /\ Started(i)
        /\ frame[i].tool = "get_forecast"
        /\ frame[i].args.days = Omitted
        /\ frame[i].args.latitude = PyFloat(FALSE, 0, "0")
        /\ QueryValues(RequestedUrl(i), "forecast_days") = <<"7">>

(***************************************************************************)
(* C6: the URL get_current_weather requests is on the forecast base path   *)
(* and its current parameter is, on every call, the same list of 15 field  *)
(* names in the same order, no name twice.                                 *)
(***************************************************************************)
C6_CurrentFields ==
    \A i \in Calls :
        (Started(i) /\ frame[i].tool = "get_current_weather") =>
            /\ Len(RequestsOf(i)) >= 1
            /\ UrlPath(RequestedUrl(i)) = "https://api.open-meteo.com/v1/forecast"
            /\ Len(QueryValues(RequestedUrl(i), "current")) = 1
            /\ LET fields == Split(QueryValues(RequestedUrl(i), "current")[1], ",")
               IN  /\ fields = CurrentFields
                   /\ Len(fields) = 15
                   /\ NoDuplicates(fields)

C6_Witness ==
    \E i \in Calls :
        /\ Started(i)
        /\ frame[i].tool = "get_current_weather"
        /\ frame[i].args.latitude = PyFloat(TRUE, 33, "87")
        /\ QueryValues(RequestedUrl(i), "latitude") = <<"-33.87">>
        /\ Len(Split(QueryValues(RequestedUrl(i), "current")[1], ",")) = 15

Status(i) ==
    CASE pc[i] = "idle" -> "NotStarted"
      [] pc[i] \in {"get", "exit"} -> "Pending"
      [] pc[i] = "done" ->
            IF result[i] = PyStr(ExpectedFailureOf(i)) THEN "Failure" ELSE "Success"

StatusSteps ==
    { <<"NotStarted", "NotStarted">>, <<"NotStarted", "Pending">>,
      <<"Pending", "Pending">>, <<"Pending", "Success">>, <<"Pending", "Failure">>,
      <<"Success", "Success">>, <<"Failure", "Failure">> }

\* everything that belongs to invocation i
Own(i) ==
    << pc[i], frame[i], outcome[i], ret[i], result[i], error[i], LogsOf(i),
       IF Started(i) THEN clients[frame[i].client] ELSE NoClient >>

(***************************************************************************)
(* C7: Pending -> {Success, Failure}.  An invocation moves from not        *)
(* started to Pending and from Pending to Success or Failure and in no     *)
(* other way; from its start on it has issued exactly one GET, so a failed *)
(* request is never issued again; and once it is in Success or Failure     *)
(* nothing of it changes any more.                                         *)
(***************************************************************************)
C7_OneAttempt ==
    [][ \A i \in Calls :
          /\ <<Status(i), Status(i)'>> \in StatusSteps
          /\ Started(i)' => (Len(RequestsOf(i)) = 1)'
          /\ Done(i) => Own(i)' = Own(i) ]_vars

C7_Witness ==
    \E i \in Calls :
        /\ Status(i) = "Failure"
        /\ outcome[i] = Response(500, "Internal Server Error")
        /\ Len(RequestsOf(i)) = 1
        /\ \E j \in Calls : Status(j) = "Success"

(***************************************************************************)
(* C8: the error log.  Once the fetch is over, its task has emitted one    *)
(* record, of severity error, if the fetch failed (transport error, HTTP   *)
(* error status, malformed body) and none if it succeeded; the fetch       *)
(* returns None exactly if it emitted the record; no exception propagates. *)
(***************************************************************************)
C8_LogIffAbsent ==
    \A i \in Calls :
        pc[i] \in {"exit", "done"} =>
            /\ error[i] = ""
            /\ LogsOf(i) = IF IsFailure(outcome[i]) THEN 1 ELSE 0
            /\ \A k \in 1..Len(log) : log[k].level = "ERROR"
            /\ (ret[i] = None) <=> (LogsOf(i) = 1)

AloneResult(f, o) ==
    LET t    == TryBlock(o)
        data == IF t.exc = "" THEN t.value ELSE None
    IN  IF Truthy(data) THEN PyStr(Dumps(data))
        ELSE PyStr(ExpectedFailure(f.tool,
                 IF f.tool = "get_location" THEN f.params.search_term.s ELSE ""))

CanStep(i) ==
    CASE pc[i] = "idle" -> ENABLED (\E a \in SomeWeatherArgs : get_current_weather(i, a))
      [] pc[i] = "get"  -> ENABLED (\E o \in SomeOutcomes : make_openmeteo_request(i, o))
      [] pc[i] = "exit" ->
            ENABLED (get_current_weather_return(i) \/ get_forecast_return(i)
                     \/ get_location_return(i))
      [] pc[i] = "done" -> TRUE

(***************************************************************************)
(* C10: concurrent invocations are independent.  Under every interleaving  *)
(* a step of one invocation changes nothing that belongs to another; an    *)
(* unfinished invocation can always take its next step, whatever the       *)
(* others are doing; and the text an invocation returns is the one its own *)
(* tool, parameters and upstream response give when it runs alone.         *)
(***************************************************************************)
C10_Independent ==
    [][ \A i \in Calls :
          /\ pc'[i] # pc[i] => \A j \in Calls \ {i} : Own(j)' = Own(j)
          /\ CanStep(i)
          /\ Done(i)' => result'[i] = AloneResult(frame'[i], outcome'[i]) ]_vars

C10_Witness ==
    \E i, j \in Calls :
        /\ pc[i] = "exit"
        /\ Done(j)
        /\ frame[i].tool # frame[j].tool
        /\ IsFailure(outcome[i])
        /\ result[j] = PyStr("{\"current\": {\"temperature_2m\": 18.3}}")

====
